---- MODULE Spec2Model ----
(***************************************************************************)
(* Model of the codebase-rag indexing and question-answering pipeline:     *)
(* RAGSystem (rag_engine.py), clone_or_update_repo (utils.py) and the      *)
(* Streamlit handlers that drive them (app.py).                            *)
(*                                                                         *)
(* An optional Python value is a sequence: <<>> is None, <<v>> is v.       *)
(* A directory is the sequence of its entries; a missing directory and an  *)
(* empty one are both <<>>.                                                *)
(***************************************************************************)
EXTENDS Integers, Sequences, FiniteSets

\* ------------------------------------------------------------------ bounds
MaxDbLen == 2       \* entries one persisted collection may hold
MaxMessages == 2    \* chat messages the browser session may hold

\* --------------------------------------------------------------- constants
K == 3              \* search_kwargs={"k": 3}

Users == {"browser"}                \* browser sessions of the Streamlit app
Direct == "caller"                  \* a caller that uses RAGSystem directly and
                                    \* may call its methods in any order
Holders == Users \cup {Direct}
Uuids == {1, 2}                     \* the identifiers uuid4 hands out in a run:
                                    \* the browser session's first, and one more
                                    \* for a clear or for the direct caller
URLs == {"A", "E", "X"}
Queries == {10, 20}
Faults == {"none", "fetch", "load", "split", "build", "chain"}
PartialCounts == {0}                \* texts persisted before a build fails
StageOrder == <<"fetch", "load", "split", "build", "chain">>

\* The file tree a locator names: A holds a Python file, E holds none, X
\* names no repository. A file's content is the sequence of its
\* chunk-sized text units, each written as its point in embedding space.
RemoteTree(repo_url) ==
    CASE repo_url = "A" -> <<[name |-> "a.py", py |-> TRUE, content |-> <<11>>],
                             [name |-> "README.md", py |-> FALSE, content |-> <<13>>]>>
      [] repo_url = "E" -> <<[name |-> "notes.txt", py |-> FALSE, content |-> <<31>>]>>
      [] OTHER -> <<>>

Cloneable(repo_url) == repo_url \in {"A", "E"}

\* ------------------------------------------------------------------- paths
RepoPath(session_id) == <<"temp_repos", session_id>>
DbPathShared(session_id) == <<"chroma_db", 1>>
DbPath(session_id) == <<"chroma_db", session_id>>
TempDir(u) == <<"tmp", u>>

Paths == {TempDir(u) : u \in Users}
           \cup {RepoPath(s) : s \in Uuids}
           \cup {DbPath(s) : s \in Uuids}

\* ------------------------------------------------------ helper functions
clean_directory(fsys, path) == [fsys EXCEPT ![path] = <<>>]

format_docs(docs) == [i \in 1..Len(docs) |-> docs[i].page_content]

\* ------------------------------------------------------------- utils.py
clone_or_update_repo(fsys, repo_url, repo_path, netOk) ==
    LET removed == [fsys EXCEPT ![repo_path] = <<>>]
        tree == RemoteTree(repo_url)
        cloned == [i \in 1..Len(tree) |->
                     [path |-> <<repo_path, tree[i].name>>,
                      py |-> tree[i].py,
                      content |-> tree[i].content]]
    IN  IF netOk /\ Cloneable(repo_url)
        THEN [ok |-> TRUE, fsys |-> [removed EXCEPT ![repo_path] = cloned]]
        ELSE [ok |-> FALSE, fsys |-> removed]

\* --------------------------------------------------------------- RAGSystem
RAGSystem(session_id) ==
    [session_id |-> session_id,
     repo_path |-> RepoPath(session_id),
     db_path |-> DbPath(session_id),
     qa_chain |-> <<>>,
     retriever |-> <<>>]

IsPy(f) == f.py

_load_all_documents(fsys, repo_path) ==
    LET files == SelectSeq(fsys[repo_path], IsPy)
    IN  [i \in 1..Len(files) |->
           [page_content |-> files[i].content, source |-> files[i].path]]

RECURSIVE split_documents(_)
split_documents(documents) ==
    IF documents = <<>> THEN <<>>
    ELSE LET d == Head(documents)
         IN  [i \in 1..Len(d.page_content) |->
                [page_content |-> d.page_content[i], source |-> d.source]]
             \o split_documents(Tail(documents))

\* Chroma.from_documents: opens the collection persisted at
\* persist_directory and adds the texts to it. A failure of the embedding or
\* of the store after n texts leaves those n persisted.
from_documents(fsys, texts, persist_directory, fault, n) ==
    IF fault = "build" /\ n < Len(texts)
    THEN [ok |-> FALSE, added |-> n,
          fsys |-> [fsys EXCEPT ![persist_directory] = @ \o SubSeq(texts, 1, n)]]
    ELSE [ok |-> TRUE, added |-> Len(texts),
          fsys |-> [fsys EXCEPT ![persist_directory] = @ \o texts]]

as_retriever(persist_directory) == [persist_directory |-> persist_directory, k |-> K]


\* retriever.invoke: the k entries of the collection nearest to the query,
\* nearest first, earlier entries first among equals.
Dist(query, doc) ==
    IF doc.page_content >= query THEN doc.page_content - query
    ELSE query - doc.page_content

Without(seq, i) == SubSeq(seq, 1, i - 1) \o SubSeq(seq, i + 1, Len(seq))

RECURSIVE TopK(_, _, _)
TopK(entries, query, k) ==
    IF k = 0 \/ entries = <<>> THEN <<>>
    ELSE LET best == CHOOSE i \in 1..Len(entries) :
                       \A j \in 1..Len(entries) :
                          \/ Dist(query, entries[i]) < Dist(query, entries[j])
                          \/ Dist(query, entries[i]) = Dist(query, entries[j]) /\ i <= j
         IN  <<entries[best]>> \o TopK(Without(entries, best), query, k - 1)

retriever_invoke(fsys, retriever, query) ==
    TopK(fsys[retriever.persist_directory], query, retriever.k)

\* ------------------------------------------------ RAGSystem.load_and_index
\* What one call did: each stage it started, whether the stage raised, and
\* what the stage returned (fetch: 1 for True, 0 for False; load: documents;
\* split: chunks; build: chunks persisted; chain: 1).
Stage(name, raised, out) == [name |-> name, raised |-> raised, out |-> out]

Raised(self, fsys, stages) ==
    [raised |-> TRUE, self |-> self, fsys |-> fsys, stages |-> stages]

Returned(self, fsys, stages) ==
    [raised |-> FALSE, self |-> self, fsys |-> fsys, stages |-> stages]

CloneFailedNever(ok) == FALSE
CloneFailed(ok) == ~ok

NoDocumentsNever(documents) == FALSE
NoDocuments(documents) == Len(documents) = 0

\* Lines 116-133: the retriever is assigned, then the chain is composed from
\* it and assigned. A failure in between leaves the retriever assigned.
BuildChainSwapped(self, fault) ==
    LET r == as_retriever(self.db_path)
        s1 == [self EXCEPT !.qa_chain = <<[retriever |-> r]>>]
    IN  IF fault = "chain"
        THEN [raised |-> TRUE, self |-> s1]
        ELSE [raised |-> FALSE, self |-> [s1 EXCEPT !.retriever = <<r>>]]
BuildChain(self, fault) ==
    LET s1 == [self EXCEPT !.retriever = <<as_retriever(self.db_path)>>]
    IN  IF fault = "chain"
        THEN [raised |-> TRUE, self |-> s1]
        ELSE [raised |-> FALSE,
              self |-> [s1 EXCEPT !.qa_chain = <<[retriever |-> s1.retriever[1]]>>]]

load_and_index(self, fsys, repo_url, fault, n) ==
    LET c == clone_or_update_repo(fsys, repo_url, self.repo_path, fault # "fetch")
        s_fetch == <<Stage("fetch", FALSE, IF c.ok THEN 1 ELSE 0)>>
    IN  IF CloneFailed(c.ok) THEN Raised(self, c.fsys, s_fetch)
        ELSE IF fault = "load"
        THEN Raised(self, c.fsys, s_fetch \o <<Stage("load", TRUE, 0)>>)
        ELSE
        LET documents == _load_all_documents(c.fsys, self.repo_path)
            s_load == s_fetch \o <<Stage("load", FALSE, Len(documents))>>
        IN  IF NoDocuments(documents) THEN Raised(self, c.fsys, s_load)
            ELSE IF fault = "split"
            THEN Raised(self, c.fsys, s_load \o <<Stage("split", TRUE, 0)>>)
            ELSE
            LET texts == split_documents(documents)
                s_split == s_load \o <<Stage("split", FALSE, Len(texts))>>
                b == from_documents(c.fsys, texts, self.db_path, fault, n)
                s_build == s_split \o <<Stage("build", ~b.ok, b.added)>>
            IN  IF ~b.ok THEN Raised(self, b.fsys, s_build)
                ELSE
                LET ch == BuildChain(self, fault)
                    s_chain == s_build \o <<Stage("chain", ch.raised, 1)>>
                IN  IF ch.raised THEN Raised(ch.self, b.fsys, s_chain)
                    ELSE Returned(ch.self, b.fsys, s_chain)

\* ----------------------------------------------------------- RAGSystem.ask
NotIndexedText == "Error: DB not indexed."

Result(text, input, context) == [text |-> text, input |-> input, context |-> context]

NotIndexedNever(self) == FALSE
NotIndexed(self) == self.qa_chain = <<>>

AskOutcome(self, raised, result, sources, context_docs, retrievals, llm_calls) ==
    [self |-> self, raised |-> raised, result |-> result,
     source_documents |-> sources, context_docs |-> context_docs,
     retrievals |-> retrievals, llm_calls |-> llm_calls]

\* The outcome of one call: the object as the call leaves it, what the call
\* returned or that it raised, the documents the chain put into the prompt,
\* and the retrieval and generative-model calls it made. The chain retrieves
\* (line 128) and calls the model (line 146); line 149 retrieves again.
ask(self, fsys, query, llmOk) ==
    IF NotIndexed(self)
    THEN AskOutcome(self, FALSE, Result(NotIndexedText, query, <<>>), <<>>, <<>>, 0, 0)
    ELSE IF self.qa_chain = <<>>
    THEN AskOutcome(self, TRUE, Result("raised", query, <<>>), <<>>, <<>>, 0, 0)
    ELSE
    LET context_docs == retriever_invoke(fsys, self.qa_chain[1].retriever, query)
    IN  IF ~llmOk \/ self.retriever = <<>>
        THEN AskOutcome(self, TRUE, Result("raised", query, <<>>),
                        <<>>, context_docs, 1, 1)
        ELSE AskOutcome(self, FALSE,
                        Result("answer", query, format_docs(context_docs)),
                        retriever_invoke(fsys, self.retriever[1], query),
                        context_docs, 2, 1)

\* ------------------------------------------------------------------- state
VARIABLES
    session_id,     \* st.session_state.session_id of each browser session
    rag_system,     \* st.session_state.rag_system: <<>> or <<object>>
    indexed_repo,   \* st.session_state.indexed_repo: <<>> or <<url>>
    messages,       \* st.session_state.messages
    pipeline,       \* the RAGSystem object of the direct caller: <<>> or <<object>>
    fs,             \* the directories: path -> entries
    next_uuid,      \* the next identifier uuid4 returns
    index_state,    \* per holder: how the most recent load_and_index ended
    ever_ok,        \* per holder: a load_and_index has returned on its session
    retired,        \* the session identifiers that "clear" replaced
    last_index,     \* what this step's load_and_index call did, if it was one
    last_ask        \* what this step's ask call did, if it was one

vars == <<session_id, rag_system, indexed_repo, messages, pipeline, fs, next_uuid,
          index_state, ever_ok, retired, last_index, last_ask>>

NotCalled == [outcome |-> "none", repo_url |-> ""]

NoIndex ==
    [called |-> FALSE, who |-> Direct, via |-> "none", repo_url |-> "", raised |-> FALSE,
     stages |-> <<>>, self_before |-> RAGSystem(1), self_after |-> RAGSystem(1),
     db_before |-> <<>>, repeat |-> FALSE, state_before |-> "none"]

NoAsk ==
    [called |-> FALSE, who |-> Direct, via |-> "none", query |-> 0,
     self_before |-> RAGSystem(1), state_before |-> "none", ever_ok |-> FALSE,
     db_before |-> <<>>, messages_before |-> <<>>, llm_ok |-> TRUE,
     out |-> AskOutcome(RAGSystem(1), FALSE, Result("", 0, <<>>), <<>>, <<>>, 0, 0)]

\* Lines 29-38 have run in the browser session; no direct object exists.
Init ==
    /\ session_id = [u \in Users |-> 1]
    /\ next_uuid = 2
    /\ rag_system = [u \in Users |-> <<>>]
    /\ indexed_repo = [u \in Users |-> <<>>]
    /\ messages = [u \in Users |-> <<>>]
    /\ pipeline = <<>>
    /\ fs = [p \in Paths |-> <<>>]
    /\ index_state = [h \in Holders |-> NotCalled]
    /\ ever_ok = [h \in Holders |-> FALSE]
    /\ retired = {}
    /\ last_index = NoIndex
    /\ last_ask = NoAsk

uuid4 == next_uuid

Message(role, content) == [role |-> role, content |-> content]

IndexLog(h, via, self, repo_url, r) ==
    [called |-> TRUE, who |-> h, via |-> via, repo_url |-> repo_url,
     raised |-> r.raised, stages |-> r.stages,
     self_before |-> self, self_after |-> r.self,
     db_before |-> fs[self.db_path],
     repeat |-> index_state[h] = [outcome |-> "ok", repo_url |-> repo_url],
     state_before |-> index_state[h].outcome]

IndexGhosts(h, via, self, repo_url, r) ==
    /\ index_state' = [index_state EXCEPT ![h] =
                         IF r.raised THEN [outcome |-> "failed", repo_url |-> ""]
                         ELSE [outcome |-> "ok", repo_url |-> repo_url]]
    /\ ever_ok' = [ever_ok EXCEPT ![h] = @ \/ ~r.raised]
    /\ last_index' = IndexLog(h, via, self, repo_url, r)
    /\ last_ask' = NoAsk

AskLog(h, via, self, query, llmOk, out) ==
    [called |-> TRUE, who |-> h, via |-> via, query |-> query,
     self_before |-> self, state_before |-> index_state[h].outcome,
     ever_ok |-> ever_ok[h], db_before |-> fs[self.db_path],
     messages_before |-> IF h \in Users THEN messages[h] ELSE <<>>,
     llm_ok |-> llmOk, out |-> out]

InputsOk(fault, n) == fault = "build" \/ n = 0

Fits(r) == \A p \in Paths : Len(r.fsys[p]) <= MaxDbLen

\* app.py 128-131: the except block of the form.
submit_except(rag) == <<>>

\* app.py 231-234: the except block of the chat input leaves the session's
\* object in place.
chat_except_drops(rag) == <<>>
chat_except(rag) == rag

\* app.py 113-131: the "Clone & Index" form of browser session u.
Submit(u, repo_url, fault, n) ==
    LET self == RAGSystem(session_id[u])
        r == load_and_index(self, clean_directory(fs, TempDir(u)), repo_url, fault, n)
    IN  /\ InputsOk(fault, n)
        /\ Fits(r)
        /\ fs' = r.fsys
        /\ IF ~r.raised
           THEN /\ rag_system' = [rag_system EXCEPT ![u] = <<r.self>>]
                /\ indexed_repo' = [indexed_repo EXCEPT ![u] = <<repo_url>>]
                /\ messages' = [messages EXCEPT ![u] = <<>>]
           ELSE /\ rag_system' = [rag_system EXCEPT ![u] = submit_except(@)]
                /\ indexed_repo' = [indexed_repo EXCEPT ![u] = <<>>]
                /\ UNCHANGED messages
        /\ IndexGhosts(u, "app", self, repo_url, r)
        /\ UNCHANGED <<session_id, pipeline, next_uuid, retired>>

\* app.py 141, 203-234: the chat input of browser session u, shown only
\* while st.session_state.rag_system is set.
ChatInput(u, prompt, llmOk) ==
    /\ rag_system[u] # <<>>
    /\ Len(messages[u]) + 2 <= MaxMessages
    /\ LET self == rag_system[u][1]
           out == ask(self, fs, prompt, llmOk)
       IN  /\ rag_system' = [rag_system EXCEPT ![u] =
                               IF out.raised THEN chat_except(<<out.self>>)
                               ELSE <<out.self>>]
           /\ messages' = [messages EXCEPT ![u] =
                             @ \o <<Message("user", Result("prompt", prompt, <<>>)),
                                    Message("assistant",
                                            IF out.raised
                                            THEN Result("An error occurred", prompt, <<>>)
                                            ELSE out.result)>>]
           /\ last_ask' = AskLog(u, "app", self, prompt, llmOk, out)
    /\ last_index' = NoIndex
    /\ UNCHANGED <<session_id, indexed_repo, pipeline, fs, next_uuid,
                   index_state, ever_ok, retired>>

\* app.py 80-88: "Clear All Context & Restart" of browser session u, with the
\* re-initialisation (lines 33-38) of the rerun it ends with.
ClearAll(u) ==
    /\ uuid4 \in Uuids
    /\ fs' = clean_directory(fs, TempDir(u))
    /\ rag_system' = [rag_system EXCEPT ![u] = <<>>]
    /\ indexed_repo' = [indexed_repo EXCEPT ![u] = <<>>]
    /\ messages' = [messages EXCEPT ![u] = <<>>]
    /\ session_id' = [session_id EXCEPT ![u] = uuid4]
    /\ next_uuid' = next_uuid + 1
    /\ retired' = retired \cup {session_id[u]}
    /\ index_state' = [index_state EXCEPT ![u] = NotCalled]
    /\ ever_ok' = [ever_ok EXCEPT ![u] = FALSE]
    /\ last_index' = NoIndex
    /\ last_ask' = NoAsk
    /\ UNCHANGED pipeline

\* A caller constructs a RAGSystem for a fresh session identifier.
NewPipeline ==
    /\ uuid4 \in Uuids
    /\ pipeline' = <<RAGSystem(uuid4)>>
    /\ next_uuid' = next_uuid + 1
    /\ index_state' = [index_state EXCEPT ![Direct] = NotCalled]
    /\ ever_ok' = [ever_ok EXCEPT ![Direct] = FALSE]
    /\ last_index' = NoIndex
    /\ last_ask' = NoAsk
    /\ UNCHANGED <<session_id, rag_system, indexed_repo, messages, fs, retired>>

\* The caller calls load_and_index on its object; an exception leaves the
\* object as the call left it.
DirectIndex(repo_url, fault, n) ==
    /\ pipeline # <<>>
    /\ LET self == pipeline[1]
           r == load_and_index(self, fs, repo_url, fault, n)
       IN  /\ InputsOk(fault, n)
           /\ Fits(r)
           /\ fs' = r.fsys
           /\ pipeline' = <<r.self>>
           /\ IndexGhosts(Direct, "direct", self, repo_url, r)
    /\ UNCHANGED <<session_id, rag_system, indexed_repo, messages, next_uuid, retired>>

\* The caller calls ask on its object.
DirectAsk(query, llmOk) ==
    /\ pipeline # <<>>
    /\ LET self == pipeline[1]
           out == ask(self, fs, query, llmOk)
       IN  /\ pipeline' = <<out.self>>
           /\ last_ask' = AskLog(Direct, "direct", self, query, llmOk, out)
    /\ last_index' = NoIndex
    /\ UNCHANGED <<session_id, rag_system, indexed_repo, messages, fs, next_uuid,
                   index_state, ever_ok, retired>>

Next ==
    \/ \E u \in Users, repo_url \in URLs, fault \in Faults, n \in PartialCounts :
          Submit(u, repo_url, fault, n)
    \/ \E u \in Users, prompt \in Queries, llmOk \in BOOLEAN : ChatInput(u, prompt, llmOk)
    \/ \E u \in Users : ClearAll(u)
    \/ NewPipeline
    \/ \E repo_url \in URLs, fault \in Faults, n \in PartialCounts :
          DirectIndex(repo_url, fault, n)
    \/ \E query \in Queries, llmOk \in BOOLEAN : DirectAsk(query, llmOk)

Spec == Init /\ [][Next]_vars

\* ------------------------------------------------------------ properties
Asker == IF last_ask.who = Direct THEN pipeline ELSE rag_system[last_ask.who]

Indexer == IF last_index.who = Direct THEN pipeline ELSE rag_system[last_index.who]

IsSentinel(out) ==
    /\ ~out.raised
    /\ out.result.text = NotIndexedText
    /\ out.source_documents = <<>>

StageNames(stages) == [i \in 1..Len(stages) |-> stages[i].name]

\* A stage succeeded: it did not raise, the fetch returned True, the load
\* returned at least one document.
Succeeded(st) ==
    /\ ~st.raised
    /\ st.name = "fetch" => st.out = 1
    /\ st.name = "load" => st.out > 0

Under(doc, repo_path) == doc.source[1] = repo_path

\* C1: when the most recent load_and_index on a session failed, an ask that
\* follows returns the not-indexed result and makes no retrieval and no
\* generative-model call.
C1_NoAskAfterFailedIndex ==
    (last_ask.called /\ last_ask.state_before = "failed")
        => /\ IsSentinel(last_ask.out)
           /\ last_ask.out.retrievals = 0
           /\ last_ask.out.llm_calls = 0

\* C2: a successful load_and_index that repeats the session's previous
\* successful one, for the same locator, leaves the persisted collection
\* with exactly the entries the first left.
C2_ReindexIsIdempotent ==
    (last_index.called /\ ~last_index.raised /\ last_index.repeat)
        => fs[last_index.self_after.db_path] = last_index.db_before

\* C3: an ask that returns an answer returns as source_documents exactly the
\* documents the chain put into the prompt, in the same order, and has made
\* one retrieval call.
C3_SourcesAreTheContext ==
    (last_ask.called /\ ~last_ask.out.raised /\ last_ask.out.result.text = "answer")
        => /\ last_ask.out.source_documents = last_ask.out.context_docs
           /\ last_ask.out.retrievals = 1

\* C4: an ask on a session on which no load_and_index has returned gives the
\* not-indexed result with no source documents, does not raise, makes no
\* retrieval and no generative-model call, and leaves the object, the
\* collection and the session's record of its last indexing as they were.
C4_AskBeforeIndex ==
    (last_ask.called /\ ~last_ask.ever_ok)
        => /\ IsSentinel(last_ask.out)
           /\ last_ask.out.retrievals = 0
           /\ last_ask.out.llm_calls = 0
           /\ last_ask.out.self = last_ask.self_before
           /\ Asker = <<last_ask.self_before>>
           /\ fs[last_ask.self_before.db_path] = last_ask.db_before
           /\ index_state[last_ask.who].outcome = last_ask.state_before

C4_Witness ==
    /\ last_ask.called
    /\ ~last_ask.ever_ok
    /\ last_ask.state_before = "failed"
    /\ last_ask.out.result.text = NotIndexedText

Objects ==
    {pipeline[i] : i \in DOMAIN pipeline}
        \cup UNION {{rag_system[u][i] : i \in DOMAIN rag_system[u]} : u \in Users}

Issued == {s \in Uuids : s < next_uuid}

\* C5: sessions with different identifiers have different repo and index
\* directories; every entry of a session's collection comes from that
\* session's repo directory, and so does every document an ask retrieves;
\* the identifier in use after a clear is none that was in use before, and
\* the browser session and the direct caller never hold the same one.
C5_SessionIsolation ==
    /\ \A s \in Issued, t \in Issued :
          s # t => /\ RAGSystem(s).repo_path # RAGSystem(t).repo_path
                   /\ RAGSystem(s).db_path # RAGSystem(t).db_path
    /\ \A s \in Uuids : \A i \in DOMAIN fs[RAGSystem(s).db_path] :
          Under(fs[RAGSystem(s).db_path][i], RAGSystem(s).repo_path)
    /\ last_ask.called =>
          /\ \A i \in DOMAIN last_ask.out.source_documents :
                Under(last_ask.out.source_documents[i], last_ask.self_before.repo_path)
          /\ \A i \in DOMAIN last_ask.out.context_docs :
                Under(last_ask.out.context_docs[i], last_ask.self_before.repo_path)
    /\ \A u \in Users :
          /\ session_id[u] \notin retired
          /\ session_id[u] \in Issued
          /\ \A o \in Objects : o.session_id \in Issued
          /\ pipeline # <<>> => pipeline[1].session_id # session_id[u]

C5_Witness ==
    /\ last_ask.called
    /\ last_ask.out.source_documents # <<>>
    /\ \A h \in Holders : ever_ok[h]
    /\ \A s \in Uuids : fs[DbPath(s)] # <<>>

\* C6: a load_and_index whose load stage finds no document raises, starts
\* neither the split nor the build, leaves the collection as it was, and
\* leaves the object not indexed: an ask on it gets the not-indexed result.
C6_EmptyCorpusLeavesFailed ==
    (/\ last_index.called
     /\ Len(last_index.stages) >= 2
     /\ ~last_index.stages[2].raised
     /\ last_index.stages[2].out = 0)
        => /\ last_index.raised
           /\ Len(last_index.stages) = 2
           /\ fs[last_index.self_after.db_path] = last_index.db_before
           /\ \A o \in {last_index.self_after} \cup {Indexer[i] : i \in DOMAIN Indexer} :
                 /\ o.qa_chain = <<>>
                 /\ \A q \in Queries : IsSentinel(ask(o, fs, q, TRUE))

\* C7: the repo directory and the index directory of a session that was
\* cleared are empty, and no ask returns a document of a cleared session.
C7_ClearEmptiesDirs ==
    /\ \A s \in retired : fs[RepoPath(s)] = <<>> /\ fs[DbPath(s)] = <<>>
    /\ last_ask.called =>
          \A i \in DOMAIN last_ask.out.source_documents, s \in retired :
             ~Under(last_ask.out.source_documents[i], RepoPath(s))

C9_StagesInOrder ==
    last_index.called =>
        LET st == last_index.stages
        IN  /\ Len(st) \in 1..Len(StageOrder)
            /\ StageNames(st) = SubSeq(StageOrder, 1, Len(st))
            /\ \A i \in 1..(Len(st) - 1) : Succeeded(st[i])
            /\ last_index.raised <=> ~Succeeded(st[Len(st)])
            /\ ~last_index.raised => Len(st) = Len(StageOrder)
            /\ last_index.self_after.qa_chain # last_index.self_before.qa_chain
                  => ~last_index.raised
            /\ last_index.via = "app" =>
                  (rag_system[last_index.who] # <<>> <=> ~last_index.raised)

C9_Witness ==
    /\ last_index.called
    /\ last_index.raised
    /\ Len(last_index.stages) = 4
    /\ last_index.stages[4].raised

\* C10: every RAGSystem object, also one that a load_and_index left by
\* raising, has a retriever whenever it has a chain, and an ask whose
\* generative call works on an object with a chain does not raise.
C10_ChainImpliesRetriever ==
    /\ \A o \in Objects : o.qa_chain # <<>> => o.retriever # <<>>
    /\ last_index.called =>
          (last_index.self_after.qa_chain # <<>> => last_index.self_after.retriever # <<>>)
    /\ (last_ask.called /\ last_ask.llm_ok /\ last_ask.self_before.qa_chain # <<>>)
          => ~last_ask.out.raised

C10_Witness ==
    /\ pipeline # <<>>
    /\ last_index.called
    /\ last_index.raised
    /\ pipeline[1].retriever # <<>>
    /\ pipeline[1].qa_chain = <<>>

====
